---------------------------- MODULE Spec2Model ----------------------------
(***************************************************************************)
(* ShopWindow backend (src/server.js): the in-memory store, the CSV import *)
(* handler POST /api/import-csv-v3/, the geocoder, and the demographics    *)
(* handler GET /api/demographics/:lat/:lng/:radius with its aggregation.   *)
(*                                                                         *)
(* JavaScript values are encoded as follows.                               *)
(*   string           a sequence of one-character strings                  *)
(*   undefined        UNDEFINED, a one-element sequence holding a token    *)
(*                    that is no character (a column missing from a row)   *)
(*   null (string)    NULLSTR, likewise                                    *)
(*   number | null    <<n>> for the number n, <<>> for null                *)
(*   number | NaN     <<n>> for the number n, <<>> for NaN                 *)
(***************************************************************************)
EXTENDS Integers, Sequences, FiniteSets, TLC

(***************************************************************************)
(* Bounds of the model.                                                    *)
(***************************************************************************)
\* import requests of one run of the server
NumReqs == 2
\* rows read by all imports of one run of the server
MaxRows == 2
\* block groups the census lists for the county of a demographics request
MaxUnits == 3
\* characters of a center name given to createShoppingCenterKey on its own
MaxNameLen == 3

Reqs == 1..NumReqs

(***************************************************************************)
(* Strings.                                                                *)
(***************************************************************************)
UNDEFINED == <<"undefined">>
NULLSTR == <<"null">>

UpperCase == <<"A","B","C","D","E","F","G","H","I","J","K","L","M",
               "N","O","P","Q","R","S","T","U","V","W","X","Y","Z">>
LowerCase == <<"a","b","c","d","e","f","g","h","i","j","k","l","m",
               "n","o","p","q","r","s","t","u","v","w","x","y","z">>
Digits == <<"0","1","2","3","4","5","6","7","8","9">>

WhiteSpace == {" ", "\t", "\n", "\r"}

\* String.prototype.toLowerCase, on one character
LowerTable ==
    [c \in {UpperCase[i] : i \in 1..Len(UpperCase)} |->
        LowerCase[CHOOSE i \in 1..Len(UpperCase) : UpperCase[i] = c]]

LowerChar(c) == IF c \in DOMAIN LowerTable THEN LowerTable[c] ELSE c

\* String.prototype.toLowerCase
toLowerCase(s) == [i \in 1..Len(s) |-> LowerChar(s[i])]

\* String.prototype.trim: drop the leading and the trailing white space
trim(s) ==
    LET inner == {i \in 1..Len(s) : s[i] \notin WhiteSpace}
    IN  IF inner = {} THEN <<>>
        ELSE LET lo == CHOOSE i \in inner : \A j \in inner : i <= j
                 hi == CHOOSE i \in inner : \A j \in inner : i >= j
             IN  SubSeq(s, lo, hi)

\* x?.trim()
OptTrim(x) == IF x = UNDEFINED THEN UNDEFINED ELSE trim(x)

\* !x for a string, undefined or null
Falsy(x) == x = <<>> \/ x = UNDEFINED \/ x = NULLSTR

\* a || b on strings
Or(a, b) == IF Falsy(a) THEN b ELSE a

\* the decimal digits of a natural number
RECURSIVE IntToStr(_)
IntToStr(n) ==
    IF n < 10 THEN <<Digits[n + 1]>>
    ELSE IntToStr(n \div 10) \o <<Digits[(n % 10) + 1]>>

DigitTable == [c \in {Digits[i] : i \in 1..Len(Digits)} |->
                  (CHOOSE i \in 1..Len(Digits) : Digits[i] = c) - 1]

IsDigit(c) == c \in DOMAIN DigitTable
DigitVal(c) == DigitTable[c]

\* the value of the longest prefix of s made of digits, following acc
RECURSIVE DigitsPrefix(_, _)
DigitsPrefix(s, acc) ==
    IF s = <<>> \/ ~IsDigit(Head(s)) THEN acc
    ELSE DigitsPrefix(Tail(s), 10 * acc + DigitVal(Head(s)))

\* s without its leading white space
RECURSIVE SkipSpace(_)
SkipSpace(s) ==
    IF s # <<>> /\ Head(s) \in WhiteSpace THEN SkipSpace(Tail(s)) ELSE s

\* parseInt(x): <<n>>, or <<>> for NaN
parseInt(x) ==
    IF x = UNDEFINED \/ x = NULLSTR THEN <<>>
    ELSE LET t == SkipSpace(x)
             neg == t # <<>> /\ Head(t) = "-"
             u == IF t # <<>> /\ Head(t) \in {"-", "+"} THEN Tail(t) ELSE t
         IN  IF u = <<>> \/ ~IsDigit(Head(u)) THEN <<>>
             ELSE IF neg THEN <<0 - DigitsPrefix(u, 0)>>
             ELSE <<DigitsPrefix(u, 0)>>

\* n || null for a number or NaN: NaN and 0 are falsy
OrNull(n) == IF n = <<>> \/ n = <<0>> THEN <<>> ELSE n

\* parseFloat(x) for a plain decimal literal: <<[int |-> i, frac |-> f]>> with
\* f the fraction's digits without trailing zeros, or <<>> for NaN
RECURSIVE DigitRun(_)
DigitRun(s) ==
    IF s = <<>> \/ ~IsDigit(Head(s)) THEN <<>> ELSE <<Head(s)>> \o DigitRun(Tail(s))

RECURSIVE StripZeros(_)
StripZeros(s) ==
    IF s # <<>> /\ s[Len(s)] = "0" THEN StripZeros(SubSeq(s, 1, Len(s) - 1)) ELSE s

parseFloat(x) ==
    IF x = UNDEFINED \/ x = NULLSTR THEN <<>>
    ELSE LET t == SkipSpace(x)
             neg == t # <<>> /\ Head(t) = "-"
             u == IF t # <<>> /\ Head(t) \in {"-", "+"} THEN Tail(t) ELSE t
             ip == DigitRun(u)
             rest == SubSeq(u, Len(ip) + 1, Len(u))
             fp == IF rest # <<>> /\ Head(rest) = "." THEN DigitRun(Tail(rest)) ELSE <<>>
             mag == DigitsPrefix(ip, 0)
         IN  IF ip = <<>> /\ fp = <<>> THEN <<>>
             ELSE <<[int |-> IF neg THEN 0 - mag ELSE mag, frac |-> StripZeros(fp)]>>

ZeroFloat == [int |-> 0, frac |-> <<>>]

\* x || 0 for a number or NaN
OrZero(x) == IF x = <<>> \/ x = <<ZeroFloat>> THEN ZeroFloat ELSE x[1]

\* Map.prototype.set
MapSet(m, k, v) == [x \in DOMAIN m \cup {k} |-> IF x = k THEN v ELSE m[x]]

\* Map.prototype.has
MapHas(m, k) == k \in DOMAIN m

\* the n-th value drawn from uuidv4(); "#" is no character of an uploaded file
uuidv4(n) == <<"#">> \o IntToStr(n)

\* the n-th value of `${Date.now()}::${Math.random()}`, taken as never repeating
timeRandom(n) == <<"@">> \o IntToStr(n)

(***************************************************************************)
(* String literals of the source.                                          *)
(***************************************************************************)
PA == <<"P", "A">>
NotSpecified == <<"N","o","t"," ","s","p","e","c","i","f","i","e","d">>
Unknown == <<"U","n","k","n","o","w","n">>
Vacant == <<"V","a","c","a","n","t">>
Sep == <<":", ":">>
VacantSep == <<":", ":", "v","a","c","a","n","t", ":", ":">>

(***************************************************************************)
(* Key helpers.                                                            *)
(***************************************************************************)
\* the key without the lowercasing
createShoppingCenterKey_NoLower(name) == trim(name)

createShoppingCenterKey(name) == trim(toLowerCase(name))

\* uuid is the value uuidv4() returns if it is called
createTenantKey(centerName, tenantName, suiteNumber, uuid) ==
    IF tenantName = Vacant
    THEN trim(toLowerCase(centerName)) \o VacantSep
            \o (IF Falsy(suiteNumber) THEN uuid ELSE suiteNumber)
    ELSE trim(toLowerCase(centerName)) \o Sep \o trim(toLowerCase(tenantName))

(***************************************************************************)
(* The geocoder.  A reply of the provider is one of                        *)
(*   [kind |-> "network"]       fetch rejects                              *)
(*   [kind |-> "notjson"]       response.json() rejects                    *)
(*   [kind |-> "noresults", status |-> s]   a body without a results list  *)
(*   [kind |-> "nogeometry", status |-> s]  a result without a geometry     *)
(*   [kind |-> "json", status |-> s, results |-> list]                     *)
(***************************************************************************)
\* a statement of the try block raises: fetch or response.json() rejects, or
\* data.results (data.results[0].geometry) is undefined where it is read
tryThrows(reply) ==
    \/ reply.kind \in {"network", "notjson"}
    \/ reply.kind \in {"noresults", "nogeometry"} /\ reply.status = "OK"

\* the value geocodeAddress resolves to once the provider has replied:
\* <<object>>, or <<>> for null (every exception is caught and logged)
geocodeResult(reply) ==
    IF reply.kind \in {"network", "notjson"} THEN <<>>
    ELSE IF reply.status # "OK" THEN <<>>
    ELSE IF reply.kind \in {"noresults", "nogeometry"} THEN <<>>
    ELSE IF Len(reply.results) > 0
         THEN <<[latitude |-> reply.results[1].lat,
                 longitude |-> reply.results[1].lng,
                 google_place_id |-> reply.results[1].place_id]>>
         ELSE <<>>

\* the try block's exception leaves geocodeAddress
geocodeAddress_NoCatch(reply) ==
    [threw |-> tryThrows(reply), value |-> geocodeResult(reply)]

\* how geocodeAddress ends once the provider has replied: the catch logs the
\* exception, so the promise is never rejected
geocodeAddress(reply) == [threw |-> FALSE, value |-> geocodeResult(reply)]

\* x || null for a coordinate: 0 is falsy
CoordOrNull(geo, f) == IF geo = <<>> THEN <<>> ELSE OrNull(<<geo[1][f]>>)

(***************************************************************************)
(* The rows of an uploaded file.                                           *)
(***************************************************************************)
TextValues == {<<>>}
Street == <<"1", " ", "M", "a", "i", "n">>
City == <<"E", "r", "i", "e">>

\* the center columns of a row: two spellings of one center, the first with
\* an address and a total_gla, the second without, a blank name and a row
\* without the column
CenterColumns ==
    {[shopping_center_name |-> <<"A", "b">>, address_street |-> Street,
      address_city |-> City, total_gla |-> <<"1", "0", "0">>],
     [shopping_center_name |-> <<"a", "b", " ">>, address_street |-> <<>>,
      address_city |-> <<>>, total_gla |-> <<>>],
     [shopping_center_name |-> <<" ">>, address_street |-> <<>>,
      address_city |-> <<>>, total_gla |-> <<>>],
     [shopping_center_name |-> UNDEFINED, address_street |-> <<>>,
      address_city |-> <<>>, total_gla |-> <<>>]}

\* the tenant columns of a row
TenantColumns ==
    {[tenant_name |-> Vacant, tenant_suite_number |-> <<>>],
     [tenant_name |-> Vacant, tenant_suite_number |-> <<"1">>],
     [tenant_name |-> <<"T">>, tenant_suite_number |-> <<>>],
     [tenant_name |-> <<"T">>, tenant_suite_number |-> <<"1">>],
     [tenant_name |-> <<"T">>, tenant_suite_number |-> <<"2">>],
     [tenant_name |-> <<>>, tenant_suite_number |-> <<"1">>]}

\* a second center with an address
OtherCenter ==
    [shopping_center_name |-> <<"C", "d">>, address_street |-> Street,
     address_city |-> City, total_gla |-> <<>>]

Row(c, t) ==
    [shopping_center_name |-> c.shopping_center_name, center_type |-> <<>>,
     address_street |-> c.address_street, address_city |-> c.address_city,
     address_state |-> <<>>, address_zip |-> <<>>, county |-> <<>>,
     municipality |-> <<>>, owner |-> <<>>, property_manager |-> <<>>,
     total_gla |-> c.total_gla, tenant_name |-> t.tenant_name,
     tenant_suite_number |-> t.tenant_suite_number,
     square_footage |-> <<"5", "0">>, retail_category |-> <<>>,
     base_rent |-> <<"1", "2", ".", "5", "0">>, is_chain |-> <<>>,
     google_place_id |-> UNDEFINED]

\* a row without a center name is skipped before any other column is read:
\* one such row stands for all of them
Rows ==
    ({Row(c, t) : c \in CenterColumns, t \in TenantColumns}
        \ {Row(c, t) : c \in {x \in CenterColumns :
                                  Falsy(OptTrim(x.shopping_center_name))},
                       t \in {x \in TenantColumns : x.tenant_name # <<>>}})
        \cup {Row(OtherCenter, [tenant_name |-> <<"T">>,
                                tenant_suite_number |-> <<"1">>])}

ProviderReplies ==
    {[kind |-> "network"], [kind |-> "notjson"],
     [kind |-> "noresults", status |-> "OK"],
     [kind |-> "noresults", status |-> "REQUEST_DENIED"],
     [kind |-> "nogeometry", status |-> "OK"],
     [kind |-> "json", status |-> "ZERO_RESULTS", results |-> <<>>],
     [kind |-> "json", status |-> "OK", results |-> <<>>],
     [kind |-> "json", status |-> "OK",
      results |-> <<[lat |-> 42, lng |-> 0 - 80, place_id |-> <<"p">>]>>]}

\* what an upload can be: no file, a file not named *.csv, a file over the
\* size limit of the upload middleware, a file the CSV parser rejects, a file
\* of n rows
Uploads == {"nofile", "notcsv", "toolarge", "malformed", "csv"}

(***************************************************************************)
(* State.                                                                  *)
(***************************************************************************)
VARIABLES
    GOOGLE_MAPS_API_KEY,  \* process.env.GOOGLE_MAPS_API_KEY is set
    shoppingCenters,      \* Map: center key -> center object
    tenants,              \* Map: tenant key -> tenant/space object
    drawn,                \* how many unique values (uuid, time/random) were drawn
    pc,                   \* per request: where its handler stands
    nrows,                \* per request: records.length
    rowNo,                \* per request: rows of records the loop has finished
    record,               \* per request: the loop variable
    stats,                \* per request: the statistics object
    centerId,             \* per request: the local centerId across the awaits
    geoData,              \* per request: the local geoData
    response,             \* per request: the HTTP status sent, 0 before
    rowsRead,             \* rows handed out to the imports so far
    seenKeys,             \* per request: center keys of its finished rows
    geoCalls,             \* calls made to the external geocoder
    running,              \* the request whose handler holds the thread, or 0
    file,                 \* per request: the upload it carries, "none" before
    unpaused,             \* per request: it has called the geocoder and has not
                          \* paused since
    \* one file imported twice, with and without the geocoding credential
    pairRows,             \* rows of the file both imports have finished
    withKey,              \* the import with the credential: its store and statistics
    withoutKey,           \* the import without it
    \* GET /api/demographics/:lat/:lng/:radius, one request
    demoPc,               \* where the handler stands
    radiusMiles,          \* the local radiusMiles: <<n>>, <<>> before
    limitedBlockGroups,   \* limitedBlockGroups.length
    pendingFetches,       \* the fetches of demographicsPromises not yet resolved
    demographicsArray,    \* what each fetch resolved to: <<demographics>>, <<>> for null
    aggregatedDemographics, \* the body sent: <<payload>>, <<>> before
    demoStatus,           \* the HTTP status sent, 0 before
    \* one call of a function of the program on its own
    call                  \* the function called, its arguments and what it returned

vars == <<GOOGLE_MAPS_API_KEY, shoppingCenters, tenants, drawn, pc, nrows, rowNo,
          record, stats, centerId, geoData, response, rowsRead, seenKeys, geoCalls,
          running, file, unpaused, pairRows, withKey, withoutKey, demoPc,
          radiusMiles, limitedBlockGroups, pendingFetches, demographicsArray,
          aggregatedDemographics, demoStatus, call>>

importVars == <<GOOGLE_MAPS_API_KEY, shoppingCenters, tenants, drawn, pc, nrows,
                rowNo, record, stats, centerId, geoData, response, rowsRead,
                seenKeys, geoCalls, running, file, unpaused>>

pairVars == <<pairRows, withKey, withoutKey>>

demoVars == <<demoPc, radiusMiles, limitedBlockGroups, pendingFetches,
              demographicsArray, aggregatedDemographics, demoStatus>>

callVars == <<call>>

store == <<shoppingCenters, tenants>>

EmptyMap == [x \in {} |-> x]

NoRecord == [shopping_center_name |-> UNDEFINED]

NewStats == [shopping_centers_created |-> 0, spaces_created |-> 0,
             tenants_created |-> 0, geocoded_centers |-> 0, errors |-> 0]

\* no function has been called on its own yet
NoCall == [fn |-> "none"]

\* the store and the statistics of an import before its first row
NewRun == [shoppingCenters |-> EmptyMap, tenants |-> EmptyMap, stats |-> NewStats,
           drawn |-> 0, geoCalls |-> 0]

Init ==
    /\ GOOGLE_MAPS_API_KEY \in BOOLEAN
    /\ shoppingCenters = EmptyMap
    /\ tenants = EmptyMap
    /\ drawn = 0
    /\ pc = [r \in Reqs |-> "idle"]
    /\ nrows = [r \in Reqs |-> 0]
    /\ rowNo = [r \in Reqs |-> 0]
    /\ record = [r \in Reqs |-> NoRecord]
    /\ stats = [r \in Reqs |-> NewStats]
    /\ centerId = [r \in Reqs |-> <<>>]
    /\ geoData = [r \in Reqs |-> <<>>]
    /\ response = [r \in Reqs |-> 0]
    /\ rowsRead = 0
    /\ seenKeys = [r \in Reqs |-> {}]
    /\ geoCalls = 0
    /\ running = 0
    /\ file = [r \in Reqs |-> "none"]
    /\ unpaused = [r \in Reqs |-> FALSE]
    /\ pairRows = 0
    /\ withKey = NewRun
    /\ withoutKey = NewRun
    /\ demoPc = "idle"
    /\ radiusMiles = <<>>
    /\ limitedBlockGroups = 0
    /\ pendingFetches = {}
    /\ demographicsArray = <<>>
    /\ aggregatedDemographics = <<>>
    /\ demoStatus = 0
    /\ call = NoCall


(***************************************************************************)
(* POST /api/import-csv-v3/: the steps of one row.                         *)
(***************************************************************************)
\* the center name without the trim
centerNameOf_NoTrim(rec) == rec.shopping_center_name

\* const centerName = record.shopping_center_name?.trim()
centerNameOf(rec) == OptTrim(rec.shopping_center_name)

\* if (record.address_street && record.address_city)
hasAddress(rec) == ~Falsy(rec.address_street) /\ ~Falsy(rec.address_city)

\* the object literal newCenter
newCenter(rec, centerName, cid, geo) ==
    [id |-> cid,
     name |-> centerName,
     address_street |-> Or(rec.address_street, <<>>),
     address_city |-> Or(rec.address_city, <<>>),
     address_state |-> Or(rec.address_state, PA),
     address_zip |-> Or(rec.address_zip, <<>>),
     county |-> Or(rec.county, <<>>),
     municipality |-> Or(rec.municipality, <<>>),
     owner |-> Or(rec.owner, <<>>),
     property_manager |-> Or(rec.property_manager, <<>>),
     total_gla |-> OrNull(parseInt(rec.total_gla)),
     center_type |-> Or(rec.center_type, NotSpecified),
     latitude |-> CoordOrNull(geo, "latitude"),
     longitude |-> CoordOrNull(geo, "longitude"),
     google_place_id |->
        Or(Or(IF geo = <<>> THEN UNDEFINED ELSE geo[1].google_place_id,
              rec.google_place_id), NULLSTR)]

\* shoppingCenters.set(centerKey, newCenter); stats.shopping_centers_created++;
\* and the geocoded_centers++ that precedes them when geoData is not null
centersAfterCreate(sc, rec, cid, geo) ==
    MapSet(sc, createShoppingCenterKey(centerNameOf(rec)),
           newCenter(rec, centerNameOf(rec), cid, geo))

\* a center counts as created only when it was geocoded
statsAfterCreate_OnlyGeocoded(st, geo) ==
    [st EXCEPT !.shopping_centers_created = IF geo # <<>> THEN @ + 1 ELSE @,
               !.geocoded_centers = IF geo # <<>> THEN @ + 1 ELSE @]

statsAfterCreate(st, geo) ==
    [st EXCEPT !.shopping_centers_created = @ + 1,
               !.geocoded_centers = IF geo # <<>> THEN @ + 1 ELSE @]

\* const tenantName = record.tenant_name?.trim() || 'Unknown'
tenantNameOf(rec) == Or(OptTrim(rec.tenant_name), Unknown)

\* const suiteNumber = record.tenant_suite_number?.trim() || ''
suiteNumberOf(rec) == Or(OptTrim(rec.tenant_suite_number), <<>>)

\* the object literal newTenant
newTenant(rec, centerName, tid) ==
    [id |-> tid,
     shopping_center_name |-> centerName,
     tenant_name |-> tenantNameOf(rec),
     tenant_suite_number |-> suiteNumberOf(rec),
     square_footage |-> OrNull(parseInt(rec.square_footage)),
     retail_category |-> Or(rec.retail_category, NULLSTR),
     base_rent |-> OrZero(parseFloat(rec.base_rent))]

\* the record is written without the look-up
createsTenant_Always(t, tenantKey, tenantName) == TRUE

\* if (!tenants.has(tenantKey) || tenantName === 'Vacant')
createsTenant(t, tenantKey, tenantName) ==
    ~MapHas(t, tenantKey) \/ tenantName = Vacant

\* "Create tenant/space record": what the rest of the loop body makes of the
\* tenants map t, the statistics st and the count d of unique values drawn
tenantPart(rec, t, st, d) ==
    LET centerName == centerNameOf(rec)
        tenantName == tenantNameOf(rec)
        suiteNumber == suiteNumberOf(rec)
        \* createTenantKey calls uuidv4() for a vacant row without a suite
        d1 == IF tenantName = Vacant /\ Falsy(suiteNumber) THEN d + 1 ELSE d
        tenantKey == createTenantKey(centerName, tenantName, suiteNumber, uuidv4(d1))
        finalKey == IF tenantName = Vacant
                    THEN tenantKey \o Sep \o timeRandom(d1 + 2)
                    ELSE tenantKey
    IN  IF createsTenant(t, tenantKey, tenantName)
        THEN [tenants |-> MapSet(t, finalKey, newTenant(rec, centerName, uuidv4(d1 + 1))),
              stats |-> [st EXCEPT !.spaces_created = @ + 1,
                                   !.tenants_created =
                                       IF tenantName # Vacant THEN @ + 1 ELSE @],
              drawn |-> IF tenantName = Vacant THEN d1 + 2 ELSE d1 + 1]
        ELSE [tenants |-> t, stats |-> st, drawn |-> d1]

InFlight(r) == pc[r] \in {"loop", "geocoding", "pausing"}

\* the center is written without the look-up
centerMissing_Always(sc, rec) == TRUE

\* if (!shoppingCenters.has(centerKey))
centerMissing(sc, rec) == ~MapHas(sc, createShoppingCenterKey(centerNameOf(rec)))

\* the end of one iteration of the loop of request r: the block's locals
\* centerId and geoData go out of scope
NextRow(r, rec) ==
    /\ rowNo' = [rowNo EXCEPT ![r] = @ + 1]
    /\ centerId' = [centerId EXCEPT ![r] = <<>>]
    /\ geoData' = [geoData EXCEPT ![r] = <<>>]
    /\ seenKeys' = [seenKeys EXCEPT ![r] =
                       IF Falsy(OptTrim(rec.shopping_center_name)) THEN @
                       ELSE @ \cup {trim(toLowerCase(rec.shopping_center_name))}]

(***************************************************************************)
(* Actions.  Node runs one handler at a time: a handler keeps the thread   *)
(* until it awaits the network or a timer, so an action is the code        *)
(* between two such awaits.  No statement of the loop body can throw on a  *)
(* parsed row (optional chaining guards the missing columns, parseInt and  *)
(* parseFloat return NaN, geocodeAddress catches), so the handler of a     *)
(* row-level exception is never entered.                                   *)
(***************************************************************************)
\* the rows are applied as the parser yields them: a file that fails to parse
\* after its first row leaves that row's center in the store
Upload_RowByRow(r, serial) ==
    /\ pc[r] = "idle"
    /\ running = 0
    /\ \A q \in Reqs : q < r => pc[q] # "idle"
    /\ serial => \A q \in Reqs : ~InFlight(q)
    /\ \E up \in Uploads :
        \/ /\ up \in {"nofile", "notcsv"}
           /\ response' = [response EXCEPT ![r] = 400]
           /\ pc' = [pc EXCEPT ![r] = "done"]
           /\ file' = [file EXCEPT ![r] = up]
           /\ UNCHANGED <<nrows, rowsRead, running, shoppingCenters, drawn>>
        \/ \* the upload middleware passes its error on: the handler is not run
           /\ up = "toolarge"
           /\ response' = [response EXCEPT ![r] = 500]
           /\ pc' = [pc EXCEPT ![r] = "done"]
           /\ file' = [file EXCEPT ![r] = up]
           /\ UNCHANGED <<nrows, rowsRead, running, shoppingCenters, drawn>>
        \/ /\ up = "malformed"
           /\ response' = [response EXCEPT ![r] = 500]
           /\ pc' = [pc EXCEPT ![r] = "done"]
           /\ file' = [file EXCEPT ![r] = up]
           /\ \E rec \in {x \in Rows : ~Falsy(centerNameOf(x))} :
                shoppingCenters' = centersAfterCreate(shoppingCenters, rec,
                                                      uuidv4(drawn + 1), <<>>)
           /\ drawn' = drawn + 1
           /\ UNCHANGED <<nrows, rowsRead, running>>
        \/ /\ up = "csv"
           /\ \E n \in 0..(MaxRows - rowsRead) :
                /\ nrows' = [nrows EXCEPT ![r] = n]
                /\ rowsRead' = rowsRead + n
           /\ pc' = [pc EXCEPT ![r] = "loop"]
           /\ running' = r
           /\ file' = [file EXCEPT ![r] = up]
           /\ UNCHANGED <<response, shoppingCenters, drawn>>
    /\ UNCHANGED <<GOOGLE_MAPS_API_KEY, tenants, rowNo,
                   record, stats, centerId, geoData, seenKeys, geoCalls, unpaused>>
    /\ UNCHANGED <<pairVars, demoVars, callVars>>

\* the handler up to the loop: the file checks and the parse.  Requests are
\* numbered in the order they arrive.  With serial, a request is taken only
\* when no other import is in flight.
Upload(r, serial) ==
    /\ pc[r] = "idle"
    /\ running = 0
    /\ \A q \in Reqs : q < r => pc[q] # "idle"
    /\ serial => \A q \in Reqs : ~InFlight(q)
    /\ \E up \in Uploads :
        \/ /\ up \in {"nofile", "notcsv"}
           /\ response' = [response EXCEPT ![r] = 400]
           /\ pc' = [pc EXCEPT ![r] = "done"]
           /\ file' = [file EXCEPT ![r] = up]
           /\ UNCHANGED <<nrows, rowsRead, running>>
        \/ \* the upload middleware passes its error on: the handler is not run
           /\ up = "toolarge"
           /\ response' = [response EXCEPT ![r] = 500]
           /\ pc' = [pc EXCEPT ![r] = "done"]
           /\ file' = [file EXCEPT ![r] = up]
           /\ UNCHANGED <<nrows, rowsRead, running>>
        \/ /\ up = "malformed"
           /\ response' = [response EXCEPT ![r] = 500]
           /\ pc' = [pc EXCEPT ![r] = "done"]
           /\ file' = [file EXCEPT ![r] = up]
           /\ UNCHANGED <<nrows, rowsRead, running>>
        \/ /\ up = "csv"
           /\ \E n \in 0..(MaxRows - rowsRead) :
                /\ nrows' = [nrows EXCEPT ![r] = n]
                /\ rowsRead' = rowsRead + n
           /\ pc' = [pc EXCEPT ![r] = "loop"]
           /\ running' = r
           /\ file' = [file EXCEPT ![r] = up]
           /\ UNCHANGED response
    /\ UNCHANGED <<GOOGLE_MAPS_API_KEY, shoppingCenters, tenants, drawn, rowNo,
                   record, stats, centerId, geoData, seenKeys, geoCalls, unpaused>>
    /\ UNCHANGED <<pairVars, demoVars, callVars>>

\* a row without a center name ends the import: the error leaves the loop for
\* the handler's outer catch
SkipRecord_Abort(r) ==
    /\ pc[r] = "loop"
    /\ running = r
    /\ rowNo[r] < nrows[r]
    /\ \E rec \in Rows :
        /\ Falsy(OptTrim(rec.shopping_center_name))
        /\ record' = [record EXCEPT ![r] = rec]
        /\ stats' = [stats EXCEPT ![r].errors = @ + 1]
    /\ response' = [response EXCEPT ![r] = 500]
    /\ pc' = [pc EXCEPT ![r] = "done"]
    /\ running' = 0
    /\ UNCHANGED <<GOOGLE_MAPS_API_KEY, shoppingCenters, tenants, drawn, nrows,
                   rowNo, centerId, geoData, rowsRead, seenKeys, geoCalls, file,
                   unpaused>>
    /\ UNCHANGED <<pairVars, demoVars, callVars>>

\* an iteration of the loop on a row without a center name:
\* stats.errors++; continue
SkipRecord(r) ==
    /\ pc[r] = "loop"
    /\ running = r
    /\ rowNo[r] < nrows[r]
    /\ \E rec \in Rows :
        /\ Falsy(centerNameOf(rec))
        /\ record' = [record EXCEPT ![r] = rec]
        /\ stats' = [stats EXCEPT ![r].errors = @ + 1]
        /\ NextRow(r, rec)
    /\ UNCHANGED <<GOOGLE_MAPS_API_KEY, shoppingCenters, tenants, drawn, pc, nrows,
                   response, rowsRead, geoCalls, running, file, unpaused>>
    /\ UNCHANGED <<pairVars, demoVars, callVars>>

\* an iteration of the loop on a row with a center name, from the loop's head
\* to its end or to the await of the geocoder's reply
ProcessRecord(r) ==
    /\ pc[r] = "loop"
    /\ running = r
    /\ rowNo[r] < nrows[r]
    /\ \E rec \in Rows :
        /\ ~Falsy(centerNameOf(rec))
        /\ record' = [record EXCEPT ![r] = rec]
        /\ IF ~centerMissing(shoppingCenters, rec)
           THEN \* the center exists: only the tenant part runs
                LET tp == tenantPart(rec, tenants, stats[r], drawn)
                IN  /\ tenants' = tp.tenants
                    /\ stats' = [stats EXCEPT ![r] = tp.stats]
                    /\ drawn' = tp.drawn
                    /\ NextRow(r, rec)
                    /\ UNCHANGED <<shoppingCenters, pc, geoCalls, running, unpaused>>
           ELSE IF hasAddress(rec) /\ GOOGLE_MAPS_API_KEY
           THEN \* centerId = uuidv4(); await geocodeAddress(...): the fetch is sent
                /\ centerId' = [centerId EXCEPT ![r] = uuidv4(drawn + 1)]
                /\ drawn' = drawn + 1
                /\ geoCalls' = geoCalls + 1
                /\ unpaused' = [unpaused EXCEPT ![r] = TRUE]
                /\ pc' = [pc EXCEPT ![r] = "geocoding"]
                /\ running' = 0
                /\ UNCHANGED <<shoppingCenters, tenants, stats, rowNo, geoData,
                               seenKeys>>
           ELSE \* no address, or geocodeAddress returns null for want of a key
                LET tp == tenantPart(rec, tenants,
                                     statsAfterCreate(stats[r], <<>>), drawn + 1)
                IN  /\ shoppingCenters' =
                         centersAfterCreate(shoppingCenters, rec, uuidv4(drawn + 1), <<>>)
                    /\ tenants' = tp.tenants
                    /\ stats' = [stats EXCEPT ![r] = tp.stats]
                    /\ drawn' = tp.drawn
                    /\ NextRow(r, rec)
                    /\ UNCHANGED <<pc, geoCalls, running, unpaused>>
    /\ UNCHANGED <<GOOGLE_MAPS_API_KEY, nrows, response, rowsRead, file>>
    /\ UNCHANGED <<pairVars, demoVars, callVars>>

\* the geocoder's reply arrives: geoData is set, the center is stored and, if
\* geoData is not null, the handler awaits the 100 ms timer
GeocodeReturn(r) ==
    /\ pc[r] = "geocoding"
    /\ running = 0
    /\ \E reply \in ProviderReplies :
        LET out == geocodeAddress(reply)
            geo == out.value
        IN  IF out.threw
            THEN \* the await throws into the catch of the row:
                 \* stats.errors++, and the loop goes on
                 /\ stats' = [stats EXCEPT ![r].errors = @ + 1]
                 /\ pc' = [pc EXCEPT ![r] = "loop"]
                 /\ running' = r
                 /\ NextRow(r, record[r])
                 /\ UNCHANGED <<shoppingCenters, tenants, drawn>>
            ELSE
            /\ shoppingCenters' =
                 centersAfterCreate(shoppingCenters, record[r], centerId[r], geo)
            /\ IF geo # <<>>
               THEN /\ geoData' = [geoData EXCEPT ![r] = geo]
                    /\ stats' = [stats EXCEPT ![r] = statsAfterCreate(@, geo)]
                    /\ pc' = [pc EXCEPT ![r] = "pausing"]
                    /\ UNCHANGED <<tenants, drawn, rowNo, centerId, seenKeys, running>>
               ELSE LET tp == tenantPart(record[r], tenants,
                                         statsAfterCreate(stats[r], geo), drawn)
                    IN  /\ tenants' = tp.tenants
                        /\ stats' = [stats EXCEPT ![r] = tp.stats]
                        /\ drawn' = tp.drawn
                        /\ pc' = [pc EXCEPT ![r] = "loop"]
                        /\ running' = r
                        /\ NextRow(r, record[r])
    /\ UNCHANGED <<GOOGLE_MAPS_API_KEY, nrows, record, response, rowsRead, geoCalls,
                   file, unpaused>>
    /\ UNCHANGED <<pairVars, demoVars, callVars>>

\* the 100 ms timer fires: the tenant part of the row runs
PauseDone(r) ==
    /\ pc[r] = "pausing"
    /\ running = 0
    /\ LET tp == tenantPart(record[r], tenants, stats[r], drawn)
       IN  /\ tenants' = tp.tenants
           /\ stats' = [stats EXCEPT ![r] = tp.stats]
           /\ drawn' = tp.drawn
    /\ pc' = [pc EXCEPT ![r] = "loop"]
    /\ running' = r
    /\ NextRow(r, record[r])
    /\ unpaused' = [unpaused EXCEPT ![r] = FALSE]
    /\ UNCHANGED <<GOOGLE_MAPS_API_KEY, shoppingCenters, nrows, record, response,
                   rowsRead, geoCalls, file>>
    /\ UNCHANGED <<pairVars, demoVars, callVars>>

\* the loop is over: res.json({message, details: stats}); the handler's
\* locals go out of scope
Finish(r) ==
    /\ pc[r] = "loop"
    /\ running = r
    /\ rowNo[r] = nrows[r]
    /\ response' = [response EXCEPT ![r] = 200]
    /\ pc' = [pc EXCEPT ![r] = "done"]
    /\ running' = 0
    /\ record' = [record EXCEPT ![r] = NoRecord]
    /\ seenKeys' = [seenKeys EXCEPT ![r] = {}]
    /\ nrows' = [nrows EXCEPT ![r] = 0]
    /\ rowNo' = [rowNo EXCEPT ![r] = 0]
    /\ unpaused' = [unpaused EXCEPT ![r] = FALSE]
    /\ UNCHANGED <<GOOGLE_MAPS_API_KEY, shoppingCenters, tenants, drawn, stats,
                   centerId, geoData, rowsRead, geoCalls, file>>
    /\ UNCHANGED <<pairVars, demoVars, callVars>>

\* requests may overlap: a handler yields at each await
Next ==
    \E r \in Reqs :
        \/ Upload(r, FALSE)
        \/ SkipRecord(r)
        \/ ProcessRecord(r)
        \/ GeocodeReturn(r)
        \/ PauseDone(r)
        \/ Finish(r)

Spec == Init /\ [][Next]_vars

\* one import at a time
SeqNext ==
    \E r \in Reqs :
        \/ Upload(r, TRUE)
        \/ SkipRecord(r)
        \/ ProcessRecord(r)
        \/ GeocodeReturn(r)
        \/ PauseDone(r)
        \/ Finish(r)

SeqSpec == Init /\ [][SeqNext]_vars

\* a handler that holds the thread runs on, the geocoder's reply (or the
\* failure of the fetch) arrives, the timer fires
Progress ==
    \E r \in Reqs :
        \/ SkipRecord(r)
        \/ ProcessRecord(r)
        \/ GeocodeReturn(r)
        \/ PauseDone(r)
        \/ Finish(r)

Fairness == WF_vars(Progress)

FairSpec == SeqSpec /\ Fairness

(***************************************************************************)
(* One file imported by two servers that differ in the credential only.    *)
(* An import that runs alone is a function of its rows and of the          *)
(* provider's replies: importRow is one iteration of the loop run from its *)
(* head to its end, its awaits included.                                   *)
(***************************************************************************)
\* what the row rec makes of the store and the statistics run of an import;
\* key: GOOGLE_MAPS_API_KEY is set; reply: what the provider replies if called
importRow(run, rec, key, reply) ==
    IF Falsy(centerNameOf(rec))
    THEN [run EXCEPT !.stats.errors = @ + 1]
    ELSE IF ~centerMissing(run.shoppingCenters, rec)
    THEN LET tp == tenantPart(rec, run.tenants, run.stats, run.drawn)
         IN  [run EXCEPT !.tenants = tp.tenants, !.stats = tp.stats,
                         !.drawn = tp.drawn]
    ELSE LET called == hasAddress(rec) /\ key
             out == IF called THEN geocodeAddress(reply)
                    ELSE [threw |-> FALSE, value |-> <<>>]
             calls == IF called THEN run.geoCalls + 1 ELSE run.geoCalls
         IN  IF out.threw
             THEN [run EXCEPT !.stats.errors = @ + 1, !.drawn = @ + 1,
                              !.geoCalls = calls]
             ELSE LET tp == tenantPart(rec, run.tenants,
                                       statsAfterCreate(run.stats, out.value),
                                       run.drawn + 1)
                  IN  [shoppingCenters |->
                          centersAfterCreate(run.shoppingCenters, rec,
                                             uuidv4(run.drawn + 1), out.value),
                       tenants |-> tp.tenants,
                       stats |-> tp.stats,
                       drawn |-> tp.drawn,
                       geoCalls |-> calls]

\* both imports read the next row of the file; the provider's reply is the
\* reply the import with the credential gets if it calls
PairRow ==
    /\ pairRows < MaxRows
    /\ \E rec \in Rows, reply \in ProviderReplies :
        /\ withKey' = importRow(withKey, rec, TRUE, reply)
        /\ withoutKey' = importRow(withoutKey, rec, FALSE, reply)
    /\ pairRows' = pairRows + 1
    /\ UNCHANGED <<importVars, demoVars, callVars>>

PairNext == PairRow

PairSpec == Init /\ [][PairNext]_vars

(***************************************************************************)
(* The census data.  A value of the census API is a string or null; a      *)
(* percentage of the payload is held in tenths (333 stands for 33.3).      *)
(***************************************************************************)
\* DEMOGRAPHIC_VARIABLES: census variable -> field of the demographics object
DEMOGRAPHIC_VARIABLES ==
    [B01003_001E |-> "total_population",
     B19013_001E |-> "median_household_income",
     B25001_001E |-> "total_housing_units",
     B25003_002E |-> "owner_occupied_housing",
     B25003_001E |-> "total_occupied_housing",
     B15003_022E |-> "bachelors_degree",
     B15003_023E |-> "masters_degree",
     B15003_024E |-> "professional_degree",
     B15003_025E |-> "doctorate_degree",
     B15003_001E |-> "total_education_population",
     B08303_013E |-> "commute_30_34_minutes",
     B08303_014E |-> "commute_35_plus_minutes",
     B08303_001E |-> "total_commuters",
     B08006_017E |-> "work_from_home",
     B19001_017E |-> "households_200k_plus",
     B19001_001E |-> "total_households"]

\* Array.prototype.indexOf: 0 stands for -1
indexOf(seq, x) ==
    IF \E i \in 1..Len(seq) : seq[i] = x
    THEN CHOOSE i \in 1..Len(seq) : seq[i] = x /\ \A j \in 1..(i - 1) : seq[j] # x
    ELSE 0

\* value < 0 for a string: the string is a decimal literal below zero
lessThanZero(value) ==
    LET t == trim(value)
        u == IF t = <<>> THEN <<>> ELSE Tail(t)
        ip == DigitRun(u)
        rest == SubSeq(u, Len(ip) + 1, Len(u))
        fp == IF rest # <<>> /\ Head(rest) = "." THEN DigitRun(Tail(rest)) ELSE <<>>
        whole == IF rest = <<>> THEN TRUE
                 ELSE Head(rest) = "." /\ Len(rest) = Len(fp) + 1
    IN  /\ t # <<>> /\ Head(t) = "-"
        /\ whole
        /\ ip \o fp # <<>>
        /\ \E i \in 1..Len(ip \o fp) : (ip \o fp)[i] # "0"

\* (value === null || value < 0) ? 0 : parseInt(value) || 0
numericValue(value) ==
    IF value = NULLSTR THEN 0
    ELSE IF lessThanZero(value) THEN 0
    ELSE LET n == parseInt(value) IN IF n = <<>> THEN 0 ELSE n[1]

\* the demographics object built from the header row and the data row
demographicsOf(headers, values) ==
    [f \in {DEMOGRAPHIC_VARIABLES[v] : v \in DOMAIN DEMOGRAPHIC_VARIABLES} |->
        LET variable == CHOOSE v \in DOMAIN DEMOGRAPHIC_VARIABLES :
                            DEMOGRAPHIC_VARIABLES[v] = f
            index == indexOf(headers, variable)
            value == IF index <= Len(values) THEN values[index] ELSE UNDEFINED
        IN  IF index # 0 THEN numericValue(value) ELSE 0]

\* a failed fetch stands as a unit of zeros
fetchBlockGroupDemographics_ZeroFill(reply) ==
    IF reply.kind = "data"
    THEN <<demographicsOf(reply.headers, reply.values)>>
    ELSE <<demographicsOf(<<>>, <<>>)>>

\* what fetchBlockGroupDemographics resolves to: <<demographics>>, or <<>> for
\* null.  A reply of the census API is one of
\*   [kind |-> "network"]    fetch rejects
\*   [kind |-> "notok"]      a status other than 2xx
\*   [kind |-> "nonjson"]    a body that does not start with [
\*   [kind |-> "badjson"]    a body JSON.parse rejects
\*   [kind |-> "short"]      an array of fewer than two rows
\*   [kind |-> "data", headers |-> row, values |-> row]
fetchBlockGroupDemographics(reply) ==
    IF reply.kind = "data"
    THEN <<demographicsOf(reply.headers, reply.values)>>
    ELSE <<>>

\* the census variables in the order of a reply's header row
CensusHeaders ==
    <<"B01003_001E", "B19013_001E", "B25001_001E", "B25003_002E", "B25003_001E",
      "B15003_022E", "B15003_023E", "B15003_024E", "B15003_025E", "B15003_001E",
      "B08303_013E", "B08303_014E", "B08303_001E", "B08006_017E", "B19001_017E",
      "B19001_001E">>

\* the data row of the numbers ns
TextRow(ns) == [i \in 1..Len(ns) |-> IntToStr(ns[i])]

MissingData == <<"-", "6", "6", "6", "6", "6", "6", "6", "6", "6">>

\* the replies of the census API for a block group: three block groups, the
\* third without a median income (the census's negative marker), with a null,
\* without one of the columns, and with more people who work from home (9)
\* than who travel to work (4)
UnitReplies ==
    {[kind |-> "network"], [kind |-> "notok"], [kind |-> "nonjson"],
     [kind |-> "badjson"], [kind |-> "short"],
     [kind |-> "data", headers |-> CensusHeaders,
      values |-> TextRow(<<100, 50000, 40, 20, 30, 10, 5, 2, 1, 60, 7, 3, 50, 4, 3, 35>>)],
     [kind |-> "data", headers |-> CensusHeaders,
      values |-> TextRow(<<300, 70000, 120, 2, 3, 1, 0, 0, 0, 3, 1, 0, 3, 2, 1, 6>>)],
     [kind |-> "data", headers |-> SubSeq(CensusHeaders, 1, 15),
      values |-> <<IntToStr(300), MissingData, NULLSTR>>
                    \o TextRow(<<0, 0, 0, 0, 0, 0, 0, 0, 0, 4, 9, 0>>)]}

\* the area look-up raises into its caller
getCensusBlockGroups_NoCatch(reply) ==
    [threw |-> reply.kind # "rows",
     value |-> IF reply.kind = "rows" /\ reply.n >= 1 THEN reply.n ELSE 0]

\* how getCensusBlockGroups ends: the length of the list it returns.  A reply
\* of the two look-ups is one of
\*   [kind |-> "network"]         a fetch rejects
\*   [kind |-> "geo_notok"], [kind |-> "geo_notjson"], [kind |-> "nocounty"]
\*   [kind |-> "census_notok"], [kind |-> "census_nonjson"],
\*   [kind |-> "census_badjson"]
\*   [kind |-> "rows", n |-> k]   a header row and k block groups
\* Every failure returns the empty list; the list is cut to 20 block groups.
getCensusBlockGroups(reply) ==
    [threw |-> FALSE,
     value |-> IF reply.kind = "rows" /\ reply.n >= 1
               THEN (IF reply.n <= 20 THEN reply.n ELSE 20)
               ELSE 0]

AreaReplies ==
    {[kind |-> "network"], [kind |-> "geo_notok"], [kind |-> "geo_notjson"],
     [kind |-> "nocounty"], [kind |-> "census_notok"], [kind |-> "census_nonjson"],
     [kind |-> "census_badjson"]}
        \cup {[kind |-> "rows", n |-> k] : k \in 0..MaxUnits}

\* the texts of a path parameter
ParamTexts == {<<"5">>, <<"x">>}

(***************************************************************************)
(* aggregateDemographics.                                                  *)
(***************************************************************************)
NotNull(d) == d # <<>>

\* only the results before the first null are kept
validDemographics_UntilNull(array) ==
    IF \E i \in 1..Len(array) : array[i] = <<>>
    THEN SubSeq(array, 1,
                (CHOOSE i \in 1..Len(array) :
                    /\ array[i] = <<>>
                    /\ \A j \in 1..(i - 1) : array[j] # <<>>) - 1)
    ELSE array

\* array.filter(d => d !== null)
validDemographics(array) == SelectSeq(array, NotNull)

TotalKeys ==
    {"total_population", "total_housing_units", "owner_occupied_housing",
     "total_occupied_housing", "bachelors_degree", "masters_degree",
     "professional_degree", "doctorate_degree", "total_education_population",
     "commute_30_34_minutes", "commute_35_plus_minutes", "total_commuters",
     "work_from_home", "households_200k_plus", "total_households",
     "median_income_sum", "median_income_count"}

\* the income of every unit weighs the same
accumulate_Unweighted(totals, demo) ==
    LET summed == [k \in TotalKeys |->
                      IF k \in DOMAIN demo THEN totals[k] + demo[k] ELSE totals[k]]
    IN  IF demo.median_household_income > 0
        THEN [summed EXCEPT
                 !["median_income_sum"] = @ + demo.median_household_income,
                 !["median_income_count"] = @ + 1]
        ELSE summed

\* one call of the callback of validDemographics.forEach
accumulate(totals, demo) ==
    LET summed == [k \in TotalKeys |->
                      IF k \in DOMAIN demo THEN totals[k] + demo[k] ELSE totals[k]]
    IN  IF demo.median_household_income > 0
        THEN [summed EXCEPT
                 !["median_income_sum"] =
                     @ + demo.median_household_income * demo.total_population,
                 !["median_income_count"] = @ + demo.total_population]
        ELSE summed

\* validDemographics.forEach, in the order of the array
RECURSIVE forEach(_, _)
forEach(valid, totals) ==
    IF valid = <<>> THEN totals
    ELSE forEach(Tail(valid), accumulate(totals, Head(valid)[1]))

\* Math.round(num / den) for num >= 0 and den > 0: a half goes up
roundDiv(num, den) == (2 * num + den) \div (2 * den)

\* the tenths are cut, not rounded
percent_Truncated(num, den) == IF den > 0 THEN (num * 1000) \div den ELSE 0

\* den > 0 ? Math.round((num / den) * 100 * 10) / 10 : 0.0, in tenths
percent(num, den) == IF den > 0 THEN roundDiv(num * 1000, den) ELSE 0

aggregateDemographics(array, radius) ==
    LET valid == validDemographics(array)
        totals == forEach(valid, [k \in TotalKeys |-> 0])
    IN  IF Len(valid) = 0
        THEN [radius |-> radius,
              total_population |-> 0,
              median_household_income |-> 0,
              total_housing_units |-> 0,
              owner_occupied_percent |-> 0,
              commute_30_plus_percent |-> 0,
              bachelors_degree_percent |-> 0,
              work_from_home_percent |-> 0,
              households_200k_percent |-> 0,
              block_groups_analyzed |-> 0]
        ELSE [radius |-> radius,
              total_population |-> totals.total_population,
              median_household_income |->
                  IF totals.median_income_count > 0
                  THEN roundDiv(totals.median_income_sum, totals.median_income_count)
                  ELSE 0,
              total_housing_units |-> totals.total_housing_units,
              owner_occupied_percent |->
                  percent(totals.owner_occupied_housing, totals.total_occupied_housing),
              commute_30_plus_percent |->
                  percent(totals.commute_30_34_minutes + totals.commute_35_plus_minutes,
                          totals.total_commuters),
              bachelors_degree_percent |->
                  percent(totals.bachelors_degree + totals.masters_degree
                            + totals.professional_degree + totals.doctorate_degree,
                          totals.total_education_population),
              work_from_home_percent |->
                  percent(totals.work_from_home, totals.total_commuters),
              households_200k_percent |->
                  percent(totals.households_200k_plus, totals.total_households),
              block_groups_analyzed |-> Len(valid)]

(***************************************************************************)
(* GET /api/demographics/:lat/:lng/:radius.                                *)
(***************************************************************************)
\* the handler up to the await of getCensusBlockGroups
DemoRequest ==
    /\ demoPc = "idle"
    /\ \E lat \in ParamTexts, lng \in ParamTexts, radius \in ParamTexts :
        IF parseFloat(lat) = <<>> \/ parseFloat(lng) = <<>> \/ parseFloat(radius) = <<>>
        THEN /\ demoStatus' = 400
             /\ aggregatedDemographics' = <<[error |-> "Invalid coordinates or radius"]>>
             /\ demoPc' = "done"
             /\ UNCHANGED radiusMiles
        ELSE /\ radiusMiles' = parseFloat(radius)
             /\ demoPc' = "resolving"
             /\ UNCHANGED <<demoStatus, aggregatedDemographics>>
    /\ UNCHANGED <<limitedBlockGroups, pendingFetches, demographicsArray>>
    /\ UNCHANGED <<importVars, pairVars, callVars>>

\* getCensusBlockGroups has returned: the answer for an empty list, or the
\* fetches of the first 10 block groups are sent
AreaResolved ==
    /\ demoPc = "resolving"
    /\ \E reply \in AreaReplies :
        LET out == getCensusBlockGroups(reply)
            n == IF out.value <= 10 THEN out.value ELSE 10
        IN  IF out.threw
            THEN \* the handler's catch
                 /\ demoStatus' = 500
                 /\ aggregatedDemographics' =
                        <<[error |-> "Failed to fetch demographic data"]>>
                 /\ demoPc' = "done"
                 /\ UNCHANGED <<limitedBlockGroups, pendingFetches, demographicsArray>>
            ELSE IF out.value = 0
            THEN /\ demoStatus' = 200
                 /\ aggregatedDemographics' =
                        <<[radius |-> radiusMiles,
                           error |-> "No census data available for this area",
                           total_population |-> 0,
                           median_household_income |-> 0,
                           total_housing_units |-> 0,
                           owner_occupied_percent |-> 0,
                           commute_30_plus_percent |-> 0,
                           bachelors_degree_percent |-> 0,
                           work_from_home_percent |-> 0,
                           households_200k_percent |-> 0,
                           block_groups_analyzed |-> 0]>>
                 /\ demoPc' = "done"
                 /\ UNCHANGED <<limitedBlockGroups, pendingFetches, demographicsArray>>
            ELSE /\ limitedBlockGroups' = n
                 /\ pendingFetches' = 1..n
                 /\ demographicsArray' = [i \in 1..n |-> <<>>]
                 /\ demoPc' = "fetching"
                 /\ UNCHANGED <<demoStatus, aggregatedDemographics>>
    /\ UNCHANGED radiusMiles
    /\ UNCHANGED <<importVars, pairVars, callVars>>

\* the promise of the i-th block group resolves
FetchResolved(i) ==
    /\ demoPc = "fetching"
    /\ i \in pendingFetches
    /\ \E reply \in UnitReplies :
        demographicsArray' =
            [demographicsArray EXCEPT ![i] = fetchBlockGroupDemographics(reply)]
    /\ pendingFetches' = pendingFetches \ {i}
    /\ UNCHANGED <<demoPc, radiusMiles, limitedBlockGroups, aggregatedDemographics,
                   demoStatus>>
    /\ UNCHANGED <<importVars, pairVars, callVars>>

\* the aggregation does not wait for the fetches
Aggregate_Early ==
    /\ demoPc = "fetching"
    /\ aggregatedDemographics' =
           <<aggregateDemographics(demographicsArray, radiusMiles)>>
    /\ demoStatus' = 200
    /\ demoPc' = "done"
    /\ UNCHANGED <<radiusMiles, limitedBlockGroups, pendingFetches, demographicsArray>>
    /\ UNCHANGED <<importVars, pairVars, callVars>>

\* Promise.all resolves once every promise has: the aggregation, and the answer
Aggregate ==
    /\ demoPc = "fetching"
    /\ pendingFetches = {}
    /\ aggregatedDemographics' =
           <<aggregateDemographics(demographicsArray, radiusMiles)>>
    /\ demoStatus' = 200
    /\ demoPc' = "done"
    /\ UNCHANGED <<radiusMiles, limitedBlockGroups, pendingFetches, demographicsArray>>
    /\ UNCHANGED <<importVars, pairVars, callVars>>

DemoNext ==
    \/ DemoRequest
    \/ AreaResolved
    \/ \E i \in 1..MaxUnits : FetchResolved(i)
    \/ Aggregate

DemoSpec == Init /\ [][DemoNext]_vars

(***************************************************************************)
(* The read API over the stores sc (shoppingCenters) and t (tenants).      *)
(***************************************************************************)
\* Array.from(shoppingCenters.values()).find(c => c.id === centerId): the keys
\* of the centers found; ids are drawn from uuidv4() and do not repeat
findCenter(sc, id) == {k \in DOMAIN sc : sc[k].id = id}

\* Array.from(tenants.values()).filter(tenant =>
\*     tenant.shopping_center_name === center.name): the keys of the records kept
centerSpaces(t, center) ==
    {k \in DOMAIN t : t[k].shopping_center_name = center.name}

\* GET /api/shopping-centers/:id/tenants: the status and, per record kept,
\* its projection
centerTenants(sc, t, id) ==
    IF findCenter(sc, id) = {} THEN [status |-> 404]
    ELSE LET center == sc[CHOOSE k \in findCenter(sc, id) : TRUE]
         IN  [status |-> 200,
              body |-> [k \in centerSpaces(t, center) |->
                          [suite_number |-> t[k].tenant_suite_number,
                           tenant_name |-> t[k].tenant_name,
                           square_footage |-> t[k].square_footage,
                           category |-> t[k].retail_category,
                           base_rent |-> t[k].base_rent]]]

\* GET /api/shopping-centers/:id/vacancy-stats
vacancyStats(sc, t, id) ==
    IF findCenter(sc, id) = {} THEN [status |-> 404]
    ELSE LET center == sc[CHOOSE k \in findCenter(sc, id) : TRUE]
             totalSpaces == Cardinality(centerSpaces(t, center))
             vacantSpaces == Cardinality({k \in centerSpaces(t, center) :
                                             t[k].tenant_name = Vacant})
         IN  [status |-> 200,
              total_spaces |-> totalSpaces,
              vacant_spaces |-> vacantSpaces,
              occupied_spaces |-> totalSpaces - vacantSpaces,
              vacancy_rate_by_count |->
                  IF totalSpaces > 0 THEN roundDiv(vacantSpaces * 100, totalSpaces)
                  ELSE 0]

(***************************************************************************)
(* One function of the program called on its own: its arguments are drawn  *)
(* from bounded sets and call records what it returned.                    *)
(***************************************************************************)
\* the characters of a center name and the center names of up to MaxNameLen
\* characters
NameChars == {"A", "a", "b", " "}

CenterNames == UNION {[1..n -> NameChars] : n \in 0..MaxNameLen}

\* createShoppingCenterKey of two names, and of the key of the first
KeyCall ==
    /\ call = NoCall
    /\ \E a \in CenterNames, b \in CenterNames :
        call' = [fn |-> "createShoppingCenterKey",
                 names |-> <<a, b>>,
                 keys |-> <<createShoppingCenterKey(a), createShoppingCenterKey(b)>>,
                 again |-> createShoppingCenterKey(createShoppingCenterKey(a))]
    /\ UNCHANGED <<importVars, pairVars, demoVars>>

\* the values of a data row of the census API: null, text that is a number,
\* text that is none, text that starts as one, and undefined for a row
\* shorter than its header row
RawValues ==
    {NULLSTR, UNDEFINED, <<>>, <<"0">>, <<"1", "2">>, <<"1", ".", "5">>,
     <<" ", "7">>, <<"x">>, <<"-", "5">>, <<"-", "0", ".", "5">>, MissingData,
     <<"-", "5", "x">>}

\* replies whose first two columns hold any two of these values, with the
\* first column's header present or not
RawReplies ==
    {[kind |-> "data", headers |-> h,
      values |-> IF w = UNDEFINED THEN <<v>> ELSE <<v, w>>] :
        v \in RawValues \ {UNDEFINED}, w \in RawValues,
        h \in {SubSeq(CensusHeaders, 1, 2), SubSeq(CensusHeaders, 2, 3)}}

\* fetchBlockGroupDemographics of one reply
FetchCall ==
    /\ call = NoCall
    /\ \E reply \in UnitReplies \cup RawReplies :
        call' = [fn |-> "fetchBlockGroupDemographics",
                 reply |-> reply,
                 result |-> fetchBlockGroupDemographics(reply)]
    /\ UNCHANGED <<importVars, pairVars, demoVars>>

\* the center_type column of a row: missing, empty, blank, or text
StripMallText == <<"s", "t", "r", "i", "p", " ", "m", "a", "l", "l">>

PowerCenterText ==
    <<"P", "O", "W", "E", "R", " ", "C", "E", "N", "T", "E", "R">>

BespokeText ==
    <<"B", "e", "s", "p", "o", "k", "e", " ", "M", "i", "x", "e", "d", "-",
      "U", "s", "e">>

CenterTypes == {UNDEFINED, <<>>, <<" ">>, StripMallText, PowerCenterText, BespokeText}

\* more values of the tenant_name column
TenantNames == {<<"v", "a", "c", "a", "n", "t">>, <<"E", "M", "P", "T", "Y">>}

\* one row imported into an empty store
RowCall ==
    /\ call = NoCall
    /\ \E r \in Rows, type \in CenterTypes, key \in BOOLEAN, reply \in ProviderReplies :
       \E name \in TenantNames \cup {r.tenant_name} :
        LET rec == [r EXCEPT !.center_type = type, !.tenant_name = name]
        IN  call' = [fn |-> "importRow",
                     record |-> rec,
                     run |-> importRow(NewRun, rec, key, reply)]
    /\ UNCHANGED <<importVars, pairVars, demoVars>>

CallNext ==
    \/ KeyCall
    \/ FetchCall
    \/ RowCall

CallSpec == Init /\ [][CallNext]_vars

(***************************************************************************)
(* The notions of the specification, stated without the code's helpers.    *)
(***************************************************************************)
\* the normalized name of a center: lowercased, trimmed
NormalizedName(name) == trim(toLowerCase(name))

\* the row has no center name: the column is missing or blank
NameMissing(rec) ==
    \/ rec.shopping_center_name = UNDEFINED
    \/ trim(rec.shopping_center_name) = <<>>

\* the suite number of a row
SuiteOf(rec) ==
    IF rec.tenant_suite_number = UNDEFINED THEN <<>> ELSE trim(rec.tenant_suite_number)

\* request r takes a step that finishes the row record'[r]
RowDone(r) == InFlight(r) /\ rowNo'[r] = rowNo[r] + 1

\* request r takes a step that reads the row record'[r] and finishes it
RowReadAndDone(r) == pc[r] = "loop" /\ RowDone(r)

\* request r takes a step that reads the row record'[r]
RowRead(r) == pc[r] = "loop" /\ (RowDone(r) \/ pc'[r] = "geocoding")

\* the tenant/space record t is the occupancy of the Space (center, suite)
InSpace(t, center, suite) ==
    /\ NormalizedName(t.shopping_center_name) = NormalizedName(center)
    /\ t.tenant_suite_number = suite

StringFields == {"id", "name", "address_street", "address_city", "address_state",
                 "address_zip", "county", "municipality", "owner",
                 "property_manager", "center_type", "google_place_id"}
NumberFields == {"total_gla", "latitude", "longitude"}

\* the field f of the center c holds a value
Populated(c, f) ==
    IF f \in NumberFields THEN c[f] # <<>>
    ELSE c[f] # <<>> /\ c[f] # NULLSTR /\ c[f] # UNDEFINED

(***************************************************************************)
(* The claims.                                                             *)
(***************************************************************************)
\* C1: the store holds at most one center per normalized name: two stored
\* centers whose names normalize to the same key are the same record.
C1_OneCenterPerName ==
    \A k1, k2 \in DOMAIN shoppingCenters :
        NormalizedName(shoppingCenters[k1].name) = NormalizedName(shoppingCenters[k2].name)
            => k1 = k2

\* two rows that spell one center differently were imported
C1_Witness ==
    \E k \in DOMAIN shoppingCenters, t \in DOMAIN tenants :
        /\ tenants[t].shopping_center_name # shoppingCenters[k].name
        /\ NormalizedName(tenants[t].shopping_center_name)
              = NormalizedName(shoppingCenters[k].name)

\* C2: importing a row a second time, right after it was imported, creates no
\* second center and leaves at most one record of that row's tenant in that
\* row's Space (stated for the rows that have a suite number).
C2_SameRowTwice ==
    [][\A r \in Reqs :
         (/\ RowReadAndDone(r)
          /\ rowNo[r] >= 1
          /\ record'[r] = record[r]
          /\ ~NameMissing(record[r])
          /\ SuiteOf(record[r]) # <<>>)
         => /\ DOMAIN shoppingCenters' = DOMAIN shoppingCenters
            /\ Cardinality({k \in DOMAIN tenants' :
                    /\ InSpace(tenants'[k], record[r].shopping_center_name,
                               SuiteOf(record[r]))
                    /\ tenants'[k].tenant_name = tenantNameOf(record[r])}) <= 1]_vars

\* C3: a Space has one current occupancy record: no two records of one Space
\* (same center, same suite number) name different tenants.
C3_OneActiveLeasePerSpace ==
    \A k1, k2 \in DOMAIN tenants :
        (/\ tenants[k1].tenant_suite_number # <<>>
         /\ InSpace(tenants[k2], tenants[k1].shopping_center_name,
                    tenants[k1].tenant_suite_number))
        => tenants[k1].tenant_name = tenants[k2].tenant_name

C5_MergeOverExisting ==
    [][\A r \in Reqs :
         (/\ RowReadAndDone(r)
          /\ ~NameMissing(record'[r])
          /\ NormalizedName(record'[r].shopping_center_name) \in DOMAIN shoppingCenters)
         => LET k == NormalizedName(record'[r].shopping_center_name)
            IN  /\ k \in DOMAIN shoppingCenters'
                /\ OrNull(parseInt(record'[r].total_gla)) # <<>>
                     => shoppingCenters'[k].total_gla = OrNull(parseInt(record'[r].total_gla))
                /\ ~Falsy(record'[r].address_street)
                     => shoppingCenters'[k].address_street = record'[r].address_street
      ]_vars

\* C6: once a row with a center name and a suite number is imported, exactly
\* one record stands for its Space (center, suite number), whatever the tenants.
C6_OneRecordPerSpace ==
    [][\A r \in Reqs :
         (RowDone(r) /\ ~NameMissing(record'[r]) /\ SuiteOf(record'[r]) # <<>>)
         => Cardinality({k \in DOMAIN tenants' :
                InSpace(tenants'[k], record'[r].shopping_center_name,
                        SuiteOf(record'[r]))}) = 1]_vars

\* C7: every row with a center name and no suite number adds a record.
C7_NoSuiteAlwaysCreates ==
    [][\A r \in Reqs :
         (RowDone(r) /\ ~NameMissing(record'[r]) /\ SuiteOf(record'[r]) = <<>>)
         => Cardinality(DOMAIN tenants') = Cardinality(DOMAIN tenants) + 1]_vars

\* C8: a row without a center name adds one to the error count and changes
\* nothing else: no center, no tenant/space record, no other statistic, no
\* call to the geocoder.
C8_BlankNameSkipped ==
    [][\A r \in Reqs :
         (RowRead(r) /\ NameMissing(record'[r]))
         => /\ stats'[r] = [stats[r] EXCEPT !.errors = @ + 1]
            /\ shoppingCenters' = shoppingCenters
            /\ tenants' = tenants
            /\ geoCalls' = geoCalls
            /\ pc'[r] = "loop"]_vars

\* a row without a center name was the last row read
C8_Witness ==
    \E r \in Reqs :
        /\ pc[r] = "loop" /\ rowNo[r] >= 1
        /\ NameMissing(record[r])
        /\ stats[r].errors >= 1

C10_RowsInOrder ==
    [][\A r \in Reqs :
         /\ stats'[r].shopping_centers_created # stats[r].shopping_centers_created
              => /\ stats'[r].shopping_centers_created
                      = stats[r].shopping_centers_created + 1
                 /\ NormalizedName(record'[r].shopping_center_name) \notin seenKeys[r]
                 /\ NormalizedName(record'[r].shopping_center_name)
                      \in DOMAIN shoppingCenters'
         /\ (InFlight(r) /\ pc'[r] # "done" /\ record'[r] # record[r])
              => pc[r] = "loop" /\ running = r /\ RowRead(r)]_vars

\* an import has read two rows that name one center and created it once
C10_Witness ==
    \E r \in Reqs :
        /\ pc[r] = "loop" /\ rowNo[r] >= 2
        /\ Cardinality(seenKeys[r]) = 1
        /\ stats[r].errors = 0
        /\ stats[r].shopping_centers_created = 1

\* C11 (as stated): an import that carries a file is answered with a failure
\* for one cause only, a file that could not be parsed.
C11_OnlyParseFailureFails ==
    \A r \in Reqs :
        (file[r] \notin {"none", "nofile"} /\ response[r] \notin {0, 200})
        => file[r] = "malformed"

\* C11: an import is answered 400 exactly when no file was uploaded or the
\* file is not named *.csv, 500 exactly when the upload is over the size limit
\* or the file could not be parsed, and 200 (with the statistics) for every
\* file that was parsed, whatever the number of its rows that were errors.
C11_FailureOnlyBeforeLoop ==
    \A r \in Reqs :
        /\ response[r] \in {0, 200, 400, 500}
        /\ response[r] = 0 <=> pc[r] # "done"
        /\ response[r] = 400 <=> (pc[r] = "done" /\ file[r] \in {"nofile", "notcsv"})
        /\ response[r] = 500 <=> (pc[r] = "done" /\ file[r] \in {"toolarge", "malformed"})
        /\ response[r] = 200 <=> (pc[r] = "done" /\ file[r] = "csv")

\* an import whose rows were all errors was answered 200
C11_Witness ==
    \E r \in Reqs :
        /\ response[r] = 200
        /\ stats[r].errors >= 2
        /\ stats[r].spaces_created = 0

\* C12: whatever the provider replies, geocodeAddress ends without an
\* exception, with null or an object of latitude, longitude and place id; the
\* row that awaited it is no error row and its center is stored.
C12_GeocodeNeverFailsCaller ==
    [][/\ \A reply \in ProviderReplies :
            LET out == geocodeAddress(reply)
            IN  /\ ~out.threw
                /\ \/ out.value = <<>>
                   \/ /\ Len(out.value) = 1
                      /\ DOMAIN out.value[1] = {"latitude", "longitude", "google_place_id"}
       /\ \A r \in Reqs :
            (pc[r] = "geocoding" /\ pc'[r] # "geocoding")
            => /\ stats'[r].errors = stats[r].errors
               /\ stats'[r].shopping_centers_created
                     = stats[r].shopping_centers_created + 1
               /\ NormalizedName(record[r].shopping_center_name)
                     \in DOMAIN shoppingCenters'
               /\ pc'[r] = "loop" => rowNo'[r] = rowNo[r] + 1
      ]_vars

\* the geocoder was called for a row and gave nothing: the center was created
\* without coordinates and no row was counted as an error
C12_Witness ==
    \E r \in Reqs :
        /\ pc[r] = "loop" /\ rowNo[r] >= 1
        /\ unpaused[r]
        /\ stats[r].geocoded_centers = 0
        /\ stats[r].shopping_centers_created >= 1
        /\ stats[r].errors = 0
        /\ \E k \in DOMAIN shoppingCenters :
             shoppingCenters[k].address_street # <<>> /\ shoppingCenters[k].latitude = <<>>

\* C14: an import calls the geocoder again only after a pause since its call
\* before, whether that call gave coordinates, gave nothing or failed.
C14_PauseBetweenCalls ==
    [][\A r \in Reqs :
         (pc[r] = "loop" /\ pc'[r] = "geocoding") => ~unpaused[r]]_vars

\* a center without what the geocoder gives
WithoutCoordinates(c) ==
    [c EXCEPT !.latitude = <<>>, !.longitude = <<>>, !.google_place_id = NULLSTR]

\* the centers, tenant/space records and statistics of an import without the
\* coordinates and the count of geocoded centers
WithoutGeocoding(run) ==
    [shoppingCenters |-> [k \in DOMAIN run.shoppingCenters |->
                             WithoutCoordinates(run.shoppingCenters[k])],
     tenants |-> run.tenants,
     stats |-> [run.stats EXCEPT !.geocoded_centers = 0]]

\* C13: the import without the credential calls no geocoder, stores no
\* coordinate, and has the centers, tenant/space records and statistics of
\* the import of the same rows with the credential, but for the coordinates,
\* the place reference and geocoded_centers.
C13_SameWithoutCredential ==
    /\ withoutKey.geoCalls = 0
    /\ withoutKey.stats.geocoded_centers = 0
    /\ \A k \in DOMAIN withoutKey.shoppingCenters :
         /\ withoutKey.shoppingCenters[k].latitude = <<>>
         /\ withoutKey.shoppingCenters[k].longitude = <<>>
    /\ WithoutGeocoding(withKey) = WithoutGeocoding(withoutKey)

\* two rows with an address were imported: with the credential one center got
\* coordinates and the other did not
C13_Witness ==
    /\ pairRows = 2
    /\ withKey.geoCalls = 2
    /\ withKey.stats.geocoded_centers = 1
    /\ withoutKey.stats.shopping_centers_created = 2
    /\ \E k \in DOMAIN withKey.shoppingCenters :
         withKey.shoppingCenters[k].latitude # <<>>

(***************************************************************************)
(* The demographics request, in the words of the specification.            *)
(***************************************************************************)
\* the units whose fetch has resolved to data
Usable ==
    {i \in 1..Len(demographicsArray) :
        i \notin pendingFetches /\ demographicsArray[i] # <<>>}

\* the field f of unit i
Unit(i, f) == demographicsArray[i][1][f]

\* the sum of fn over the units S
RECURSIVE Sum(_, _)
Sum(fn, S) ==
    IF S = {} THEN 0
    ELSE LET i == CHOOSE x \in S : TRUE IN fn[i] + Sum(fn, S \ {i})

\* the sum of the field f over the usable units
Total(f) == Sum([i \in Usable |-> Unit(i, f)], Usable)

\* the request was answered with an aggregate of the fetched units
Aggregated == demoPc = "done" /\ demoStatus = 200 /\ limitedBlockGroups > 0

\* the body of the answer
Payload == aggregatedDemographics[1]

Abs(x) == IF x < 0 THEN 0 - x ELSE x

\* m is num / den rounded to the nearest integer
Nearest(m, num, den) == 2 * Abs(m * den - num) <= den

\* t tenths is 100 * num / den rounded to one decimal place, 0 when den is 0
IsPercent(t, num, den) ==
    IF den = 0 THEN t = 0 ELSE Nearest(t, 1000 * num, den)

\* C15: the fetches resolve in any order, and the body of the answer is
\* computed, and the answer sent, only in a step before which no fetch of the
\* request is pending.
C15_JoinThenReduce ==
    [][(aggregatedDemographics' # aggregatedDemographics \/ demoStatus' # demoStatus)
         => /\ pendingFetches = {}
            /\ pendingFetches' = {}
            /\ demographicsArray' = demographicsArray]_vars

\* three fetches were sent and the answer aggregates what each resolved to,
\* data or null
C15_Witness ==
    /\ Aggregated
    /\ limitedBlockGroups >= 3
    /\ pendingFetches = {}
    /\ Cardinality(Usable) = 2

\* C16: the aggregate of the resolved fetches is the same for every order of
\* the array, and it counts and sums every unit that is not null.
C16_OrderIndependent ==
    (demoPc \in {"fetching", "done"} /\ limitedBlockGroups > 0 /\ pendingFetches = {})
    => LET n == Len(demographicsArray)
           a == aggregateDemographics(demographicsArray, radiusMiles)
       IN  /\ \A p \in Permutations(1..n) :
                aggregateDemographics([i \in 1..n |-> demographicsArray[p[i]]],
                                      radiusMiles) = a
           /\ a.block_groups_analyzed = Cardinality(Usable)
           /\ a.total_population = Total("total_population")
           /\ a.total_housing_units = Total("total_housing_units")
           /\ Aggregated => Payload = a

\* the first fetch failed and two later ones, of different units, gave data
C16_Witness ==
    /\ Aggregated
    /\ Len(demographicsArray) >= 3
    /\ demographicsArray[1] = <<>>
    /\ demographicsArray[2] # <<>> /\ demographicsArray[3] # <<>>
    /\ demographicsArray[2] # demographicsArray[3]

\* C17: a fetch resolves to data exactly when the census replied with a data
\* row; block_groups_analyzed is the number of such units, the sums run over
\* them alone, and a failed fetch leaves the answer a success.
C17_AnalyzedCountsSuccesses ==
    /\ \A reply \in UnitReplies :
         fetchBlockGroupDemographics(reply) # <<>> <=> reply.kind = "data"
    /\ (demoPc = "done" /\ limitedBlockGroups > 0)
       => /\ demoStatus = 200
          /\ Payload.block_groups_analyzed = Cardinality(Usable)
          /\ Payload.total_population = Total("total_population")
          /\ Payload.total_housing_units = Total("total_housing_units")

\* one fetch of two failed: one unit is counted
C17_Witness ==
    /\ Aggregated
    /\ limitedBlockGroups = 2
    /\ Cardinality(Usable) = 1
    /\ Payload.block_groups_analyzed = 1
    /\ Payload.total_population > 0

\* C18: a request is never answered 500, and a request with valid parameters
\* and no usable unit (no block group listed, or every fetch failed) is
\* answered 200 with block_groups_analyzed 0 and every count and percentage 0.
C18_NoUsableUnitIsSuccess ==
    /\ demoStatus # 500
    /\ (demoPc = "done" /\ demoStatus # 400 /\ Usable = {})
       => /\ demoStatus = 200
          /\ Payload.block_groups_analyzed = 0
          /\ Payload.total_population = 0
          /\ Payload.median_household_income = 0
          /\ Payload.total_housing_units = 0
          /\ Payload.owner_occupied_percent = 0
          /\ Payload.commute_30_plus_percent = 0
          /\ Payload.bachelors_degree_percent = 0
          /\ Payload.work_from_home_percent = 0
          /\ Payload.households_200k_percent = 0

\* every fetch of a request failed
C18_Witness ==
    /\ demoPc = "done"
    /\ limitedBlockGroups >= 2
    /\ Usable = {}
    /\ demoStatus = 200

\* C19 (as stated): median_household_income is the population-weighted mean
\* of the incomes of all the usable units, rounded, and 0 when they have no
\* population.
C19_WeightedOverAllUnits ==
    Aggregated
    => LET num == Sum([i \in Usable |-> Unit(i, "median_household_income")
                                          * Unit(i, "total_population")], Usable)
           den == Total("total_population")
       IN  IF den = 0 THEN Payload.median_household_income = 0
           ELSE Nearest(Payload.median_household_income, num, den)

\* the usable units that report a median income
WithIncome == {i \in Usable : Unit(i, "median_household_income") > 0}

\* C19: median_household_income is the population-weighted mean of the
\* incomes of the usable units that report an income above 0, rounded to the
\* nearest integer, and 0 when those units have no population.
C19_WeightedOverUnitsWithIncome ==
    Aggregated
    => LET num == Sum([i \in WithIncome |-> Unit(i, "median_household_income")
                                              * Unit(i, "total_population")], WithIncome)
           den == Sum([i \in WithIncome |-> Unit(i, "total_population")], WithIncome)
       IN  IF den = 0 THEN Payload.median_household_income = 0
           ELSE Nearest(Payload.median_household_income, num, den)

\* units of populations 100 and 300 and incomes 50000 and 70000 give 65000
C19_Witness ==
    /\ Aggregated
    /\ \E i, j \in Usable :
         /\ Usable = {i, j}
         /\ Unit(i, "total_population") = 100
         /\ Unit(i, "median_household_income") = 50000
         /\ Unit(j, "total_population") = 300
         /\ Unit(j, "median_household_income") = 70000
    /\ Payload.median_household_income = 65000

\* C20: each percentage is the sum of its numerator counts over the usable
\* units divided by the sum of its denominator counts, times 100, rounded to
\* one decimal place, and 0 when the denominator sum is 0.
C20_PercentagesOfSums ==
    Aggregated
    => /\ IsPercent(Payload.owner_occupied_percent,
                    Total("owner_occupied_housing"), Total("total_occupied_housing"))
       /\ IsPercent(Payload.commute_30_plus_percent,
                    Total("commute_30_34_minutes") + Total("commute_35_plus_minutes"),
                    Total("total_commuters"))
       /\ IsPercent(Payload.bachelors_degree_percent,
                    Total("bachelors_degree") + Total("masters_degree")
                      + Total("professional_degree") + Total("doctorate_degree"),
                    Total("total_education_population"))
       /\ IsPercent(Payload.work_from_home_percent,
                    Total("work_from_home"), Total("total_commuters"))
       /\ IsPercent(Payload.households_200k_percent,
                    Total("households_200k_plus"), Total("total_households"))

\* two units: 22 of 33 occupied homes are owner-occupied (66.7), 4 of 41
\* households are above 200k (9.8)
C20_Witness ==
    /\ Aggregated
    /\ Cardinality(Usable) = 2
    /\ Total("total_occupied_housing") = 33
    /\ Payload.owner_occupied_percent = 667
    /\ Payload.households_200k_percent = 98

(***************************************************************************)
(* C21: the values of a fetched unit.                                      *)
(***************************************************************************)
\* the text is a number: a decimal literal, white space around it allowed
NumericTexts ==
    {<<"0">>, <<"1", "2">>, <<"1", ".", "5">>, <<" ", "7">>, <<"-", "5">>,
     <<"-", "0", ".", "5">>, MissingData}

\* the text is a number below zero
NegativeTexts == {<<"-", "5">>, <<"-", "0", ".", "5">>, MissingData}

\* the value the reply holds for the statistic f: undefined without the
\* column or without the cell
RawValueOf(reply, f) ==
    LET at == {i \in 1..Len(reply.headers) :
                  reply.headers[i] \in DOMAIN DEMOGRAPHIC_VARIABLES
                  /\ DEMOGRAPHIC_VARIABLES[reply.headers[i]] = f}
    IN  IF at = {} THEN UNDEFINED
        ELSE LET i == CHOOSE j \in at : TRUE
             IN  IF i <= Len(reply.values) THEN reply.values[i] ELSE UNDEFINED

\* C21: every statistic of a fetched unit is a non-negative integer, and it is
\* 0 when the reply's value for it is missing (no column, null, no number) or
\* is a number below zero
C21_MissingOrNegativeIsZero ==
    (call.fn = "fetchBlockGroupDemographics" /\ call.result # <<>>)
        => \A f \in DOMAIN call.result[1] :
              /\ call.result[1][f] \in Nat
              /\ (RawValueOf(call.reply, f) \notin NumericTexts \ NegativeTexts)
                    => call.result[1][f] = 0

(***************************************************************************)
(* C22: a row without a tenant name.                                       *)
(***************************************************************************)
\* the row's tenant_name is empty or blank
TenantBlank(rec) == rec.tenant_name = <<>> \/ trim(rec.tenant_name) = <<>>

\* the vacant_spaces that the vacancy statistics of the stores sc and t give
\* for the center of the row rec
VacantSpacesOf(sc, t, rec) ==
    LET key == NormalizedName(rec.shopping_center_name)
    IN  IF key \in DOMAIN sc /\ vacancyStats(sc, t, sc[key].id).status = 200
        THEN vacancyStats(sc, t, sc[key].id).vacant_spaces
        ELSE 0

\* C22: a row with a center name and an empty or blank tenant_name adds one
\* record, the record's tenant name is "Vacant", the vacancy statistics of the
\* row's center count one more vacant space, and tenants_created stays.
C22_BlankTenantIsVacant ==
    [][\A r \in Reqs :
         (RowDone(r) /\ ~NameMissing(record'[r]) /\ TenantBlank(record'[r]))
         => /\ \E k \in DOMAIN tenants' \ DOMAIN tenants :
                  tenants'[k].tenant_name = Vacant
            /\ VacantSpacesOf(shoppingCenters', tenants', record'[r])
                  = VacantSpacesOf(shoppingCenters, tenants, record'[r]) + 1
            /\ stats'[r].tenants_created = stats[r].tenants_created]_vars

(***************************************************************************)
(* C23: the tenants_created statistic.                                     *)
(***************************************************************************)
\* the text sub occurs in the text s
Contains(s, sub) ==
    \E i \in 1..(Len(s) - Len(sub) + 1) : SubSeq(s, i, i + Len(sub) - 1) = sub

\* the tenant name is a vacancy: it contains "vacant" or "empty" in any case
IsVacancy(name) ==
    \/ Contains(toLowerCase(name), <<"v", "a", "c", "a", "n", "t">>)
    \/ Contains(toLowerCase(name), <<"e", "m", "p", "t", "y">>)

\* C23: after the import of a row into an empty store, tenants_created is the
\* number of records whose tenant name is no vacancy, and it is at most
\* spaces_created.
C23_TenantsCreatedExcludesVacancies ==
    call.fn = "importRow"
        => /\ call.run.stats.tenants_created
                = Cardinality({k \in DOMAIN call.run.tenants :
                                  ~IsVacancy(call.run.tenants[k].tenant_name)})
           /\ call.run.stats.tenants_created <= call.run.stats.spaces_created

(***************************************************************************)
(* C24: the center_type of a new center.                                   *)
(***************************************************************************)
\* the vocabulary of center types
SuperRegionalMall == <<"S", "u", "p", "e", "r", " ", "R", "e", "g", "i", "o",
    "n", "a", "l", " ", "M", "a", "l", "l">>
RegionalMall == <<"R", "e", "g", "i", "o", "n", "a", "l", " ", "M", "a", "l",
    "l">>
CommunityCenter == <<"C", "o", "m", "m", "u", "n", "i", "t", "y", " ", "C",
    "e", "n", "t", "e", "r">>
NeighborhoodCenter == <<"N", "e", "i", "g", "h", "b", "o", "r", "h", "o",
    "o", "d", " ", "C", "e", "n", "t", "e", "r">>
StripConvenience == <<"S", "t", "r", "i", "p", "/", "C", "o", "n", "v", "e",
    "n", "i", "e", "n", "c", "e">>
PowerCenter == <<"P", "o", "w", "e", "r", " ", "C", "e", "n", "t", "e", "r">>
LifestyleCenter == <<"L", "i", "f", "e", "s", "t", "y", "l", "e", " ", "C",
    "e", "n", "t", "e", "r">>
FactoryOutlet == <<"F", "a", "c", "t", "o", "r", "y", " ", "O", "u", "t",
    "l", "e", "t">>
ThemeFestival == <<"T", "h", "e", "m", "e", "/", "F", "e", "s", "t", "i",
    "v", "a", "l">>

CenterTypeVocabulary ==
    {SuperRegionalMall, RegionalMall, CommunityCenter, NeighborhoodCenter,
     StripConvenience, PowerCenter, LifestyleCenter, FactoryOutlet, ThemeFestival}

\* normalizeCenterType(raw): null for an empty or blank value, the vocabulary's
\* value on a match in any case, the first keyword rule that applies, the raw
\* text otherwise
normalizeCenterType(raw) ==
    IF raw = UNDEFINED \/ raw = NULLSTR \/ trim(raw) = <<>> THEN NULLSTR
    ELSE LET low == toLowerCase(trim(raw))
         IN  IF \E v \in CenterTypeVocabulary : toLowerCase(v) = low
             THEN CHOOSE v \in CenterTypeVocabulary : toLowerCase(v) = low
             ELSE IF Contains(low, <<"s", "t", "r", "i", "p">>) \/ Contains(low, <<"c", "o", "n", "v", "e", "n", "i", "e", "n", "c", "e">>)
             THEN StripConvenience
             ELSE IF Contains(low, <<"p", "o", "w", "e", "r">>) THEN PowerCenter
             ELSE IF Contains(low, <<"l", "i", "f", "e", "s", "t", "y", "l", "e">>) THEN LifestyleCenter
             ELSE IF Contains(low, <<"c", "o", "m", "m", "u", "n", "i", "t", "y">>) THEN CommunityCenter
             ELSE IF Contains(low, <<"n", "e", "i", "g", "h", "b", "o", "r", "h", "o", "o", "d">>) THEN NeighborhoodCenter
             ELSE IF Contains(low, <<"r", "e", "g", "i", "o", "n", "a", "l">>) /\ ~Contains(low, <<"s", "u", "p", "e", "r">>)
             THEN RegionalMall
             ELSE IF Contains(low, <<"s", "u", "p", "e", "r">>) /\ Contains(low, <<"r", "e", "g", "i", "o", "n", "a", "l">>)
             THEN SuperRegionalMall
             ELSE IF Contains(low, <<"f", "a", "c", "t", "o", "r", "y">>) \/ Contains(low, <<"o", "u", "t", "l", "e", "t">>)
             THEN FactoryOutlet
             ELSE IF Contains(low, <<"t", "h", "e", "m", "e">>) \/ Contains(low, <<"f", "e", "s", "t", "i", "v", "a", "l">>)
             THEN ThemeFestival
             ELSE raw

\* C24: the center a row creates in an empty store holds the normalized type
\* of the row's center_type: null for an empty or blank value, the
\* vocabulary's value for "strip mall", the raw text when nothing matches.
C24_CenterTypeNormalized ==
    call.fn = "importRow"
        => \A k \in DOMAIN call.run.shoppingCenters :
              call.run.shoppingCenters[k].center_type
                  = normalizeCenterType(call.record.center_type)

(***************************************************************************)
(* C25: the key of a center name.                                          *)
(***************************************************************************)
\* one letter in either case, or one character
SameLetter(c, d) ==
    c = d \/ \E i \in 1..Len(UpperCase) : {c, d} = {UpperCase[i], LowerCase[i]}

\* the texts differ in letter case at most
SameButCase(s, t) ==
    Len(s) = Len(t) /\ \A i \in 1..Len(s) : SameLetter(s[i], t[i])

IsInk(c) == c \notin WhiteSpace

\* the text is white space throughout
Blank(s) == \A i \in 1..Len(s) : s[i] \in WhiteSpace

\* the names differ in letter case and in white space at most
DifferOnlyInCaseOrSpace(a, b) ==
    SameButCase(SelectSeq(a, IsInk), SelectSeq(b, IsInk))

\* the names differ in letter case and in the white space before and after
\* them at most
DifferOnlyInCaseOrOuterSpace(a, b) ==
    \E i \in 1..(Len(a) + 1), k \in 1..(Len(b) + 1) :
    \E j \in (i - 1)..Len(a), l \in (k - 1)..Len(b) :
        /\ Blank(SubSeq(a, 1, i - 1)) /\ Blank(SubSeq(a, j + 1, Len(a)))
        /\ Blank(SubSeq(b, 1, k - 1)) /\ Blank(SubSeq(b, l + 1, Len(b)))
        /\ SameButCase(SubSeq(a, i, j), SubSeq(b, k, l))

\* C25 as stated: two names that differ only in letter case or white space
\* have one key, and the key of a key is that key.
C25_SameKeyUpToCaseAndSpace ==
    call.fn = "createShoppingCenterKey"
        => /\ DifferOnlyInCaseOrSpace(call.names[1], call.names[2])
                => call.keys[1] = call.keys[2]
           /\ call.again = call.keys[1]

\* C25, amended: two names that differ only in letter case or in the white
\* space before and after them have one key, and the key of a key is that key.
C25_SameKeyUpToCaseAndOuterSpace ==
    call.fn = "createShoppingCenterKey"
        => /\ DifferOnlyInCaseOrOuterSpace(call.names[1], call.names[2])
                => call.keys[1] = call.keys[2]
           /\ call.again = call.keys[1]

\* the names "Ab " and " ab" have the key "ab"
C25_Witness ==
    /\ call.fn = "createShoppingCenterKey"
    /\ call.names = <<<<"A", "b", " ">>, <<" ", "a", "b">>>>
    /\ DifferOnlyInCaseOrOuterSpace(call.names[1], call.names[2])
    /\ call.keys = <<<<"a", "b">>, <<"a", "b">>>>
    /\ call.again = <<"a", "b">>

(***************************************************************************)
(* C26: imports that overlap.                                              *)
(***************************************************************************)
\* the centers all imports report as created
CentersReported ==
    Sum([r \in Reqs |-> stats[r].shopping_centers_created], Reqs)

\* C26: whatever the order in which overlapping imports take their steps, a
\* stored center stays and keeps its id, and the imports together report as
\* many created centers as the store holds.
C26_EachCenterCreatedOnce ==
    /\ [][\A k \in DOMAIN shoppingCenters :
             /\ k \in DOMAIN shoppingCenters'
             /\ shoppingCenters'[k].id = shoppingCenters[k].id]_vars
    /\ [](CentersReported = Cardinality(DOMAIN shoppingCenters))

(***************************************************************************)
(* C27: the records of a center in the read API.                           *)
(***************************************************************************)
\* the records whose rows named the center of the key
RecordsOf(key) ==
    {k \in DOMAIN tenants : NormalizedName(tenants[k].shopping_center_name) = key}

\* C27: every tenant/space record is among the tenants of the center its row
\* named, in whatever case or white space the row spelled the name, and the
\* vacancy statistics of that center count every such record.
C27_EveryRecordReachable ==
    \A k \in DOMAIN tenants :
        LET key == NormalizedName(tenants[k].shopping_center_name)
        IN  /\ key \in DOMAIN shoppingCenters
            /\ LET id == shoppingCenters[key].id
                   list == centerTenants(shoppingCenters, tenants, id)
                   counts == vacancyStats(shoppingCenters, tenants, id)
               IN  /\ list.status = 200
                   /\ k \in DOMAIN list.body
                   /\ counts.status = 200
                   /\ counts.total_spaces = Cardinality(RecordsOf(key))

(***************************************************************************)
(* C28: a file that cannot be parsed.                                      *)
(***************************************************************************)
\* C28: the request whose file the parser rejects is answered with the
\* failure in one step that writes no center and no tenant/space record, and
\* it takes no step before or after: it reads no row and counts nothing.
C28_ParseFailureLeavesStore ==
    [][\A r \in Reqs :
         /\ (pc[r] = "idle" /\ file'[r] = "malformed")
                => /\ shoppingCenters' = shoppingCenters
                   /\ tenants' = tenants
                   /\ response'[r] = 500
                   /\ pc'[r] = "done"
         /\ file[r] = "malformed"
                => /\ pc'[r] = "done" /\ pc[r] = "done"
                   /\ response'[r] = 500
                   /\ stats'[r] = NewStats
                   /\ rowNo'[r] = 0]_vars

\* a file that cannot be parsed was answered with the failure while the store
\* held the records of an earlier import
C28_Witness ==
    \E r \in Reqs :
        /\ file[r] = "malformed"
        /\ response[r] = 500
        /\ stats[r] = NewStats
        /\ DOMAIN shoppingCenters # {}
        /\ DOMAIN tenants # {}

(***************************************************************************)
(* C29: the tenant/space records over the imports.                         *)
(***************************************************************************)
\* the records all imports report as created
SpacesReported(st) == Sum([r \in Reqs |-> st[r].spaces_created], Reqs)

\* C29: a step of an import removes no tenant/space record and changes none,
\* and it adds as many records as it adds to spaces_created; so the records
\* after an import are the records before it and spaces_created new ones.
C29_ImportOnlyAdds ==
    [][/\ \A k \in DOMAIN tenants :
            k \in DOMAIN tenants' /\ tenants'[k] = tenants[k]
       /\ Cardinality(DOMAIN tenants') - Cardinality(DOMAIN tenants)
            = SpacesReported(stats') - SpacesReported(stats)]_vars

\* all rows were imported without an error row, the last a repetition of an
\* earlier row's tenant: one record stored, one reported
C29_Witness ==
    /\ \A r \in Reqs : pc[r] = "done" /\ stats[r].errors = 0
    /\ rowsRead = MaxRows
    /\ Cardinality(DOMAIN tenants) = 1
    /\ SpacesReported(stats) = 1

(***************************************************************************)
(* C30: the range of the percentages.                                      *)
(***************************************************************************)
PercentFields ==
    {"owner_occupied_percent", "commute_30_plus_percent", "bachelors_degree_percent",
     "work_from_home_percent", "households_200k_percent"}

\* every count of every usable unit is a non-negative integer
CountsNonNegative ==
    \A i \in Usable : \A f \in DOMAIN demographicsArray[i][1] : Unit(i, f) \in Nat

\* C30: over units of non-negative counts, every percentage of the answer lies
\* between 0 and 100 (0 and 1000 tenths).
C30_PercentagesInRange ==
    (Aggregated /\ CountsNonNegative)
        => \A f \in PercentFields : Payload[f] >= 0 /\ Payload[f] <= 1000


=============================================================================
